---- MODULE Spec2Model ----
(***************************************************************************)
(* c2rust-clean: project-root resolution, relative clean directory,        *)
(* the run pipeline (preflight, command, config save, auto-commit), the    *)
(* git auto-commit helper, and the two ways a record is persisted and read *)
(* back (the configuration tool, the JSON file).                            *)
(*                                                                          *)
(* Paths are sequences of components (std::path::Path is compared and      *)
(* stripped component-wise); the filesystem root "/" is the empty          *)
(* sequence.  Strings are sequences of one-character strings.              *)
(***************************************************************************)
EXTENDS Integers, Sequences, FiniteSets, TLC

VARIABLES
    platform,            \* target the binary was built for: "unix" | "windows"
    cwd,                 \* std::env::current_dir()
    fs,                  \* directory -> set of entry names present in it
    envRoot,             \* C2RUST_PROJECT_ROOT: None or Some(path)
    pc,                  \* position of the operation under way
    root_arg,            \* root handed to the relative-directory calculation
    project_root,        \* Result<PathBuf> of find_project_root, None before
    clean_dir_relative,  \* result of the relative-directory calculation, None before
    stderr,              \* lines written to the error stream (tags)
    args,                \* CommandArgs of the invocation: feature, clean_cmd
    calls,               \* subprocesses spawned and revisions attempted, in order
    run_result,          \* Result<()> of run, None while it is running
    exit_code,           \* exit code of the process, None while it is running
    config,              \* what the configuration tool holds: <<feature, key, value>>
    git,                 \* the repository in <root>/.c2rust
    hist,                \* check_and_commit calls since the store was last touched
    faults,              \* git operations that fail as the store's surroundings are
    request,             \* the record to persist: dir, command, feature
    config_file,         \* text of <root>/.c2rust/config.json, None if missing
    listing,             \* standard output of the last --list query, None before
    loaded               \* Result of read_config or Config::load, None before

envVars == <<platform, cwd, fs, envRoot>>
calcVars == <<root_arg, project_root, clean_dir_relative, stderr>>
runVars == <<args, calls, run_result, exit_code, config>>
gitVars == <<git, hist, faults>>
storeVars == <<request, config_file, listing, loaded>>

vars == <<platform, cwd, fs, envRoot, pc, root_arg, project_root,
          clean_dir_relative, stderr, args, calls, run_result, exit_code,
          config, git, hist, faults, request, config_file, listing, loaded>>

(***************************************************************************)
(* Bounds of the model                                                      *)
(***************************************************************************)
\* deepest directory below the filesystem root
MaxDepth == 2
\* successive check_and_commit calls followed without a change in between
MaxCalls == 3
\* revisions a store holds at most
MaxCommits == 2

(***************************************************************************)
(* Option and Result values                                                 *)
(***************************************************************************)
None == <<>>
Some(x) == <<x>>
Ok(v) == [ok |-> TRUE, val |-> v, err |-> "-"]
Err(e) == [ok |-> FALSE, val |-> <<>>, err |-> e]

\* no repository: .c2rust is absent or a plain directory
NoRepo == [repo |-> FALSE, workdir_changed |-> FALSE, index_changed |-> FALSE,
           commits |-> <<>>]

\* nothing run, nothing stored
RunIdle ==
    /\ args = None
    /\ calls = <<>>
    /\ run_result = None
    /\ exit_code = None
    /\ config = {}

GitIdle ==
    /\ git = NoRepo
    /\ hist = <<>>
    /\ faults = {}

\* nothing to persist, nothing persisted in a file, nothing read back
StoreIdle ==
    /\ request = None
    /\ config_file = None
    /\ listing = None
    /\ loaded = None

(***************************************************************************)
(* Paths                                                                    *)
(***************************************************************************)
\* component names; the last one holds a byte that is not valid UTF-8
NameA == <<"a">>
NameB == <<"b", "c">>
NameX == <<"x", "\\xFF">>
Names == {NameA, NameB}
AllNames == {NameA, NameB, NameX}

RECURSIVE PathsOver(_, _)
PathsOver(S, n) ==
    IF n = 0 THEN {<<>>}
    ELSE LET shorter == PathsOver(S, n - 1)
         IN  shorter \cup {Append(p, c) : p \in {q \in shorter : Len(q) = n - 1}, c \in S}

Dirs == PathsOver(Names, MaxDepth)

IsPrefix(base, path) ==
    /\ Len(base) <= Len(path)
    /\ SubSeq(path, 1, Len(base)) = base

Prefixes(path) == {SubSeq(path, 1, n) : n \in 0..Len(path)}

\* Path::parent: None at the filesystem root
parent(p) == IF Len(p) = 0 THEN None ELSE Some(SubSeq(p, 1, Len(p) - 1))

\* Path::join of a directory and an entry name, then Path::exists
exists(dir, entry) == dir \in DOMAIN fs /\ entry \in fs[dir]

(***************************************************************************)
(* main.rs: find_project_root                                               *)
(***************************************************************************)
markers_git_only == <<".git">>

markers == <<".git", "Cargo.toml", ".c2rust">>

MarkerSet == {".git", "Cargo.toml", ".c2rust"}

has_marker(current) == \E i \in 1..Len(markers) : exists(current, markers[i])

RECURSIVE walk(_, _)
walk(current, start_dir) ==
    IF has_marker(current) THEN Ok(current)
    ELSE IF parent(current) = None THEN Ok(start_dir)
    ELSE walk(parent(current)[1], start_dir)

\* plausible bugs: keep walking to the outermost marker; fail when none is found
RECURSIVE walk_outermost(_, _, _)
walk_outermost(current, start_dir, best) ==
    LET b == IF has_marker(current) THEN current ELSE best
    IN  IF parent(current) = None THEN Ok(b)
        ELSE walk_outermost(parent(current)[1], start_dir, b)

find_project_root_outermost(start_dir) == walk_outermost(start_dir, start_dir, start_dir)

RECURSIVE walk_or_fail(_, _)
walk_or_fail(current, start_dir) ==
    IF has_marker(current) THEN Ok(current)
    ELSE IF parent(current) = None THEN Err("IoError")
    ELSE walk_or_fail(parent(current)[1], start_dir)

find_project_root_or_fail(start_dir) == walk_or_fail(start_dir, start_dir)

\* plausible bug: the environment override wins over the walk
find_project_root_env_first(start_dir) ==
    IF envRoot # None THEN Ok(envRoot[1]) ELSE walk(start_dir, start_dir)

\* plausible bug: with no marker found, the environment override is the root
RECURSIVE walk_env_fallback(_, _)
walk_env_fallback(current, start_dir) ==
    IF has_marker(current) THEN Ok(current)
    ELSE IF parent(current) = None
    THEN IF envRoot # None THEN Ok(envRoot[1]) ELSE Ok(start_dir)
    ELSE walk_env_fallback(parent(current)[1], start_dir)

find_project_root_env_fallback(start_dir) == walk_env_fallback(start_dir, start_dir)

find_project_root(start_dir) == walk(start_dir, start_dir)

(***************************************************************************)
(* Root resolution applied to every small directory tree                    *)
(***************************************************************************)
\* entries on the ancestors of the start directory; no entries elsewhere
TreeFor(start, m) ==
    [d \in Dirs |-> IF IsPrefix(d, start) THEN m[Len(d)] ELSE {}]

InitRoot ==
    /\ platform = "unix"
    /\ cwd \in Dirs
    /\ \E m \in [0..Len(cwd) -> SUBSET MarkerSet] : fs = TreeFor(cwd, m)
    /\ envRoot = None
    /\ pc = "start"
    /\ root_arg = None
    /\ project_root = None
    /\ clean_dir_relative = None
    /\ stderr = <<>>
    /\ RunIdle
    /\ GitIdle
    /\ StoreIdle

ResolveRoot ==
    /\ pc = "start"
    /\ project_root' = Some(find_project_root(cwd))
    /\ pc' = "resolved"
    /\ UNCHANGED <<storeVars, envVars, root_arg, clean_dir_relative, stderr, runVars, gitVars>>

NextRoot == ResolveRoot

SpecRoot == InitRoot /\ [][NextRoot]_vars

\* a directory holds at least one of the three recognised markers
Marked(d) == fs[d] \cap MarkerSet # {}

Resolved == pc = "resolved" /\ project_root # None

\* C1: when markers exist at one or several ancestor depths, the resolved
\* root is the ancestor-or-self of the start directory closest to it that
\* holds a marker, never an outer one, whatever the marker types are.
C1_ClosestMarkerWins ==
    (Resolved /\ \E d \in Prefixes(cwd) : Marked(d)) =>
        /\ project_root[1].ok
        /\ IsPrefix(project_root[1].val, cwd)
        /\ Marked(project_root[1].val)
        /\ \A d \in Prefixes(cwd) : Marked(d) => Len(d) <= Len(project_root[1].val)

\* markers of different types at two depths; the inner one is returned
C1_Witness ==
    /\ Resolved
    /\ \E outer \in Prefixes(cwd), inner \in Prefixes(cwd) :
          /\ Len(outer) < Len(inner)
          /\ Marked(outer) /\ Marked(inner)
          /\ fs[outer] \cap fs[inner] = {}
          /\ project_root[1] = Ok(inner)

\* C2: with no marker anywhere from the start directory up to the filesystem
\* root the result is the start directory, and resolution never fails.
C2_FallbackToStart ==
    Resolved =>
        /\ project_root[1].ok
        /\ (\A d \in Prefixes(cwd) : ~Marked(d)) => project_root[1].val = cwd

C2_Witness ==
    /\ Resolved
    /\ Len(cwd) = MaxDepth
    /\ \A d \in Prefixes(cwd) : ~Marked(d)
    /\ project_root[1] = Ok(cwd)

\* C3 as stated: every marked directory r strictly above the start directory
\* is the resolved root.
C3_Original ==
    Resolved =>
        \A r \in Prefixes(cwd) :
            (r # cwd /\ Marked(r)) => project_root[1] = Ok(r)

\* C3 (amended): for a directory d strictly inside r, where r holds a marker
\* of any of the three types and no directory from d up to, but excluding, r
\* holds one, the resolved root is r.
C3_NearestMarkedAncestor ==
    Resolved =>
        \A r \in Prefixes(cwd) : \A m \in MarkerSet :
            ( /\ r # cwd
              /\ m \in fs[r]
              /\ \A e \in Prefixes(cwd) : Len(e) > Len(r) => ~Marked(e) )
            => project_root[1] = Ok(r)

\* r two levels up holds only Cargo.toml
C3_Witness ==
    /\ Resolved
    /\ Len(cwd) >= 2
    /\ \E r \in Prefixes(cwd) :
          /\ Len(r) = Len(cwd) - 2
          /\ fs[r] = {"Cargo.toml"}
          /\ \A e \in Prefixes(cwd) : Len(e) > Len(r) => ~Marked(e)
          /\ project_root[1] = Ok(r)

(***************************************************************************)
(* Relative clean directory: main.rs run (lines 80-91) and                  *)
(* config.rs Config::calculate_relative_dir                                 *)
(***************************************************************************)
InvalidByte == "\\xFF"
ReplacementChar == "U+FFFD"

\* std::path::MAIN_SEPARATOR of the build target
MAIN_SEPARATOR == IF platform = "windows" THEN "\\" ELSE "/"

\* Path::strip_prefix: component-wise
strip_prefix(path, base) ==
    IF IsPrefix(base, path)
    THEN Ok(SubSeq(path, Len(base) + 1, Len(path)))
    ELSE Err("StripPrefixError")

\* the text of a relative path as the operating system holds it
RECURSIVE as_os_str(_)
as_os_str(p) ==
    IF Len(p) = 0 THEN <<>>
    ELSE IF Len(p) = 1 THEN p[1]
    ELSE p[1] \o <<MAIN_SEPARATOR>> \o as_os_str(Tail(p))

\* Path::display().to_string(): lossy conversion to UTF-8
display(p) ==
    LET s == as_os_str(p)
    IN  [i \in 1..Len(s) |-> IF s[i] = InvalidByte THEN ReplacementChar ELSE s[i]]

\* Path::to_str(): None unless the text is valid UTF-8
to_str(p) ==
    LET s == as_os_str(p)
    IN  IF \E i \in 1..Len(s) : s[i] = InvalidByte THEN None ELSE Some(s)

Dot == <<".">>

\* plausible bugs: no "." for the root itself; silent fallback
relative_clean_dir_no_dot(current_dir, root) ==
    LET r == strip_prefix(current_dir, root)
    IN  IF r.ok THEN [value |-> display(r.val), warned |-> FALSE]
        ELSE [value |-> Dot, warned |-> TRUE]

relative_clean_dir_silent(current_dir, root) ==
    LET r == strip_prefix(current_dir, root)
    IN  IF r.ok
        THEN [value |-> IF Len(as_os_str(r.val)) = 0 THEN Dot ELSE display(r.val),
              warned |-> FALSE]
        ELSE [value |-> Dot, warned |-> FALSE]

\* main.rs 80-91: strip_prefix(..).map(..).unwrap_or_else(..)
relative_clean_dir(current_dir, root) ==
    LET r == strip_prefix(current_dir, root)
    IN  IF r.ok
        THEN [value |-> IF Len(as_os_str(r.val)) = 0 THEN Dot ELSE display(r.val),
              warned |-> FALSE]
        ELSE [value |-> Dot, warned |-> TRUE]

\* config.rs 43-70
calculate_relative_dir(c2rust_root) ==
    LET r == strip_prefix(cwd, c2rust_root)
    IN  IF r.ok
        THEN LET rel_str == to_str(r.val)
             IN  IF rel_str = None THEN Err("IoError")
                 ELSE IF Len(rel_str[1]) = 0 THEN Ok(Dot)
                 ELSE Ok(rel_str[1])
        ELSE Err("IoError")

WarnNotUnderRoot == "Warning: current directory is not under project root"

RelDirs == PathsOver(AllNames, MaxDepth)

InitRel ==
    /\ platform \in {"unix", "windows"}
    /\ cwd \in RelDirs
    /\ fs = [d \in Dirs |-> {}]
    /\ envRoot = None
    /\ pc = "start"
    /\ root_arg \in {Some(d) : d \in RelDirs}
    /\ project_root = None
    /\ clean_dir_relative = None
    /\ stderr = <<>>
    /\ RunIdle
    /\ GitIdle
    /\ StoreIdle

\* the calculation of run
RelMain ==
    /\ pc = "start"
    /\ LET c == relative_clean_dir(cwd, root_arg[1])
       IN  /\ clean_dir_relative' = Some(Ok(c.value))
           /\ stderr' = IF c.warned THEN Append(stderr, WarnNotUnderRoot) ELSE stderr
    /\ pc' = "main_done"
    /\ UNCHANGED <<storeVars, envVars, root_arg, project_root, runVars, gitVars>>

\* the calculation of Config
RelConfig ==
    /\ pc = "start"
    /\ clean_dir_relative' = Some(calculate_relative_dir(root_arg[1]))
    /\ pc' = "config_done"
    /\ UNCHANGED <<storeVars, envVars, root_arg, project_root, stderr, runVars, gitVars>>

NextRel == RelMain \/ RelConfig

SpecRel == InitRel /\ [][NextRel]_vars

Calculated == pc \in {"main_done", "config_done"} /\ clean_dir_relative # None

\* C5: a computed relative clean directory is never the empty string, and
\* for current_dir = root it is exactly ".", for every root.
C5_NeverEmptyDotAtRoot ==
    Calculated =>
        /\ clean_dir_relative[1].ok => Len(clean_dir_relative[1].val) > 0
        /\ cwd = root_arg[1] => clean_dir_relative[1] = Ok(Dot)

C5_Witness ==
    /\ pc = "main_done"
    /\ Len(cwd) = MaxDepth
    /\ cwd = root_arg[1]
    /\ clean_dir_relative = Some(Ok(Dot))

\* the names from root down to current_dir joined with "/"
RECURSIVE JoinSlash(_)
JoinSlash(p) ==
    IF Len(p) = 0 THEN <<>>
    ELSE IF Len(p) = 1 THEN p[1]
    ELSE p[1] \o <<"/">> \o JoinSlash(Tail(p))

ValidUtf8(p) == \A i \in 1..Len(p) : \A j \in 1..Len(p[i]) : p[i][j] # InvalidByte

StrictDescendant == IsPrefix(root_arg[1], cwd) /\ cwd # root_arg[1]

\* C6: for current_dir a strict descendant of root (names being valid
\* text), the relative clean directory, of run and of Config alike, is the
\* intermediate names joined with "/", with no leading separator and no
\* leading "./".
C6_SlashJoined ==
    (Calculated /\ StrictDescendant /\ ValidUtf8(cwd)) =>
        /\ clean_dir_relative[1].ok
        /\ clean_dir_relative[1].val =
              JoinSlash(SubSeq(cwd, Len(root_arg[1]) + 1, Len(cwd)))
        /\ ~IsPrefix(<<"/">>, clean_dir_relative[1].val)
        /\ ~IsPrefix(<<".", "/">>, clean_dir_relative[1].val)

MissingPath == <<<<"g", "o", "n", "e">>>>
FilePath == <<<<"f", "i", "l", "e">>>>

\* the git operations that can fail (permissions, full disk, locks): each is
\* a map_err of git_helper.rs
GitFaults == {"create_dir_all", "init", "statuses", "index", "commit"}

path_exists(p) == p \in DOMAIN fs \/ p = FilePath
is_dir(p) == p \in DOMAIN fs

\* plausible bug: the override is taken as it is, not validated
get_project_root_unchecked ==
    IF envRoot = None THEN Err("IoError") ELSE Ok(envRoot[1])

\* git_helper.rs 14-30
get_project_root ==
    IF envRoot = None THEN Err("IoError")
    ELSE IF ~path_exists(envRoot[1]) \/ ~is_dir(envRoot[1]) THEN Err("IoError")
    ELSE Ok(envRoot[1])

\* git_helper.rs 33-36
get_c2rust_dir ==
    LET project_root_ == get_project_root
    IN  IF project_root_.ok THEN Ok(<<project_root_.val, ".c2rust">>) ELSE project_root_

\* plausible bug: the directory is created, the repository never initialised
ensure_git_repo_no_init ==
    LET c2rust_dir == get_c2rust_dir
    IN  IF ~c2rust_dir.ok THEN [res |-> c2rust_dir, fs |-> fs, git |-> git]
        ELSE LET root == c2rust_dir.val[1]
             IN  IF ~exists(root, ".c2rust") /\ "create_dir_all" \in faults
                 THEN [res |-> Err("IoError"), fs |-> fs, git |-> git]
                 ELSE [res |-> Ok(root),
                       fs |-> [fs EXCEPT ![root] = @ \cup {".c2rust"}],
                       git |-> git]

\* git_helper.rs 46-66: the result of ensure_git_repo with the filesystem
\* and the repository it leaves
ensure_git_repo ==
    LET c2rust_dir == get_c2rust_dir
    IN  IF ~c2rust_dir.ok THEN [res |-> c2rust_dir, fs |-> fs, git |-> git]
        ELSE LET root == c2rust_dir.val[1]
                 made == [fs EXCEPT ![root] = @ \cup {".c2rust"}]
             IN  IF ~exists(root, ".c2rust") /\ "create_dir_all" \in faults
                 THEN [res |-> Err("IoError"), fs |-> fs, git |-> git]
                 ELSE IF git.repo
                 THEN [res |-> Ok(root), fs |-> made, git |-> git]
                 ELSE IF "init" \in faults
                 THEN [res |-> Err("IoError"), fs |-> made, git |-> git]
                 ELSE [res |-> Ok(root), fs |-> made,
                       git |-> [git EXCEPT !.repo = TRUE]]

\* plausible bug: every scan reports modifications
has_modifications_always(g) ==
    IF "statuses" \in faults THEN Err("IoError") ELSE Ok(TRUE)

\* git_helper.rs 76-89: the status scan, untracked files included
has_modifications(g) ==
    IF "statuses" \in faults THEN Err("IoError")
    ELSE Ok(g.workdir_changed \/ g.index_changed)

\* format!("Auto-commit changes at {}", now), word by word
AutoCommitMessage == <<"Auto-commit", "changes", "at", "<timestamp>">>

\* index.add_all(["."]) and index.write()
staged(g) ==
    [g EXCEPT !.index_changed = g.index_changed \/ g.workdir_changed,
              !.workdir_changed = FALSE]

\* plausible bug: the head revision is not passed as parent
committed_orphan(g) ==
    [staged(g) EXCEPT
        !.index_changed = FALSE,
        !.commits = Append(@, [parents |-> <<>>, message |-> AutoCommitMessage])]

\* repo.commit(Some("HEAD"), .., &tree, parents)
committed(g) ==
    [staged(g) EXCEPT
        !.index_changed = FALSE,
        !.commits = Append(@, [parents |-> IF Len(@) = 0 THEN <<>> ELSE <<Len(@)>>,
                               message |-> AutoCommitMessage])]

\* git_helper.rs 98-172: failure before the index is written, failure after
\* it, success
commit_changes(g) ==
    IF "index" \in faults THEN [res |-> Err("IoError"), git |-> g]
    ELSE IF "commit" \in faults THEN [res |-> Err("IoError"), git |-> staged(g)]
    ELSE [res |-> Ok(<<>>), git |-> committed(g)]

\* git_helper.rs 185-194
check_and_commit ==
    LET e == ensure_git_repo
    IN  IF ~e.res.ok THEN e
        ELSE LET m == has_modifications(e.git)
             IN  IF ~m.ok THEN [res |-> m, fs |-> e.fs, git |-> e.git]
                 ELSE IF m.val
                 THEN LET c == commit_changes(e.git)
                      IN  [res |-> c.res, fs |-> e.fs, git |-> c.git]
                 ELSE [res |-> Ok(<<>>), fs |-> e.fs, git |-> e.git]

CommittedNote == "Changes in .c2rust directory committed to git"

UserCommit == [parents |-> <<>>, message |-> <<"initial">>]

InitGit ==
    /\ platform = "unix"
    /\ cwd = <<>>
    /\ envRoot \in {None, Some(MissingPath), Some(FilePath)} \cup {Some(d) : d \in Dirs}
    /\ \E e \in {{}, {".c2rust"}} :
          fs = [d \in Dirs |-> IF envRoot = Some(d) THEN e ELSE {}]
    /\ pc = "start"
    /\ root_arg = None
    /\ project_root = None
    /\ clean_dir_relative = None
    /\ stderr = <<>>
    /\ RunIdle
    /\ StoreIdle
    /\ hist = <<>>
    /\ faults \in SUBSET GitFaults
    /\ IF get_project_root.ok /\ exists(get_project_root.val, ".c2rust")
       THEN \E r \in BOOLEAN, w \in BOOLEAN, i \in BOOLEAN, c \in {<<>>, <<UserCommit>>} :
               /\ ~r => (~i /\ c = <<>>)
               /\ git = [repo |-> r, workdir_changed |-> w, index_changed |-> i,
                         commits |-> c]
       ELSE git = NoRepo

\* one call of check_and_commit
CheckAndCommit ==
    /\ Len(hist) < MaxCalls
    /\ LET o == check_and_commit
       IN /\ fs' = o.fs
          /\ git' = o.git
          /\ hist' = Append(hist, [ok |-> o.res.ok,
                                   before |-> git,
                                   fs_before |-> fs,
                                   after |-> o.git,
                                   fs_after |-> o.fs])
          /\ stderr' = IF o.res.ok /\ Len(o.git.commits) > Len(git.commits)
                       THEN <<CommittedNote>> ELSE <<>>
    /\ UNCHANGED <<storeVars, platform, cwd, envRoot, pc, root_arg, project_root,
                   clean_dir_relative, runVars, faults>>

\* something else writes, changes or deletes a file of <root>/.c2rust
TouchStore ==
    /\ get_project_root.ok
    /\ exists(get_project_root.val, ".c2rust")
    /\ Len(git.commits) < MaxCommits
    /\ git' = [git EXCEPT !.workdir_changed = TRUE]
    /\ hist' = <<>>
    /\ UNCHANGED <<storeVars, envVars, pc, calcVars, runVars, faults>>

\* permissions, locks or free space around the store change
SurroundingsChange ==
    /\ \E f \in SUBSET GitFaults : f # faults /\ faults' = f
    /\ hist' = <<>>
    /\ UNCHANGED <<storeVars, envVars, pc, calcVars, runVars, git>>

NextGit == CheckAndCommit \/ TouchStore \/ SurroundingsChange

SpecGit == InitGit /\ [][NextGit]_vars

Revisions(g) == Len(g.commits)

\* C10: of two successive calls with no change in between, the second
\* creates no revision and leaves HEAD unchanged, and both together create at
\* most one.
C10_Idempotent ==
    \A k \in 2..Len(hist) :
        /\ hist[k].after.commits = hist[k].before.commits
        /\ Revisions(hist[k].after) - Revisions(hist[k - 1].before) <= 1

\* the first call commits, the second returns Ok and creates nothing
C10_Witness ==
    /\ Len(hist) >= 2
    /\ hist[1].ok /\ hist[2].ok
    /\ Revisions(hist[1].after) = Revisions(hist[1].before) + 1
    /\ hist[2].after.commits = hist[1].after.commits

\* C11 as stated: with no repository at the root (.c2rust absent, or present
\* and not a repository) the check returns success and does nothing: no
\* directory, no repository, no revision.
C11_Original ==
    \A k \in 1..Len(hist) :
        ~hist[k].before.repo =>
            /\ hist[k].ok
            /\ hist[k].fs_after = hist[k].fs_before
            /\ hist[k].after = hist[k].before

\* C11 (amended): with a usable project root and no repository there, a
\* check that returns success has created .c2rust if it was missing and
\* initialised a repository in it, and has created one parentless revision
\* exactly when the directory held files; a check that fails creates no
\* revision; with no usable project root it fails and changes nothing.
C11_CheckInitialisesStore ==
    \A k \in 1..Len(hist) :
        ~hist[k].before.repo =>
            /\ ~get_project_root.ok =>
                  /\ ~hist[k].ok
                  /\ hist[k].fs_after = hist[k].fs_before
                  /\ hist[k].after = hist[k].before
            /\ (get_project_root.ok /\ hist[k].ok) =>
                  /\ hist[k].after.repo
                  /\ ".c2rust" \in hist[k].fs_after[get_project_root.val]
                  /\ Revisions(hist[k].after) =
                        IF hist[k].before.workdir_changed THEN 1 ELSE 0
                  /\ \A i \in 1..Revisions(hist[k].after) :
                        hist[k].after.commits[i].parents = <<>>
            /\ ~hist[k].ok => hist[k].after.commits = hist[k].before.commits

\* .c2rust is absent; the check creates it and initialises a repository
C11_Witness ==
    /\ Len(hist) >= 1
    /\ get_project_root.ok
    /\ ".c2rust" \notin hist[1].fs_before[get_project_root.val]
    /\ hist[1].before = NoRepo
    /\ hist[1].ok
    /\ ".c2rust" \in hist[1].fs_after[get_project_root.val]
    /\ hist[1].after.repo
    /\ hist[1].after.commits = <<>>

RepoDirty(g) == g.repo /\ (g.workdir_changed \/ g.index_changed)

OverrideUsable == envRoot # None /\ envRoot[1] \in DOMAIN fs

\* C24: get_project_root returns the override exactly when
\* C2RUST_PROJECT_ROOT is set and names an existing directory; unset, or
\* naming a path that does not exist or is no directory, it is an error,
\* and check_and_commit then fails having created no directory, no
\* repository and no revision.
C24_StrictOverrideValidation ==
    /\ OverrideUsable => get_project_root = Ok(envRoot[1])
    /\ ~OverrideUsable => ~get_project_root.ok
    /\ ~OverrideUsable =>
          \A k \in 1..Len(hist) :
              /\ ~hist[k].ok
              /\ hist[k].fs_after = hist[k].fs_before
              /\ hist[k].after = hist[k].before
              /\ \A d \in DOMAIN fs : ".c2rust" \notin fs[d]
              /\ ~git.repo /\ git.commits = <<>>

\* the override names a regular file: two failed checks, nothing created
C24_Witness ==
    /\ envRoot = Some(FilePath)
    /\ Len(hist) = 2
    /\ ~hist[1].ok /\ ~hist[2].ok
    /\ git = NoRepo
    /\ \A d \in DOMAIN fs : fs[d] = {}

(***************************************************************************)
(* config_helper.rs, executor.rs and main.rs: one invocation                *)
(***************************************************************************)
\* how a spawned subprocess ends
Outcomes == {"spawn_failed", "exit_nonzero", "exit_zero"}

ErrK(kind, detail) == Err([kind |-> kind, detail |-> detail])

Call(kind, feature_, key, value, outcome) ==
    [kind |-> kind, feature |-> feature_, key |-> key, value |-> value,
     outcome |-> outcome]

\* plausible bug: the probe's result is ignored
check_c2rust_config_exists_lenient(outcome) == Ok(<<>>)

\* config_helper.rs 17-27: <tool> --help
check_c2rust_config_exists(outcome) ==
    IF outcome = "exit_zero" THEN Ok(<<>>) ELSE ErrK("ConfigToolNotFound", "")

\* main.rs 70
DefaultFeature == <<"d", "e", "f", "a", "u", "l", "t">>
\* plausible bug: no name is substituted when the flag is absent
feature_no_default == IF args.feature = None THEN <<>> ELSE args.feature[1]

feature == IF args.feature = None THEN DefaultFeature ELSE args.feature[1]

\* Vec<String>::join(" ")
RECURSIVE join_space(_)
join_space(tokens) ==
    IF Len(tokens) = 0 THEN <<>>
    ELSE IF Len(tokens) = 1 THEN tokens[1]
    ELSE tokens[1] \o <<" ">> \o join_space(Tail(tokens))

\* plausible bugs: the exit status of the command is not looked at; a failed
\* command is reported as an I/O error
execute_command_ignoring_status(dir, command, outcome) ==
    IF Len(command) = 0
    THEN [res |-> ErrK("CommandExecutionFailed", "No command provided"), spawned |-> FALSE]
    ELSE IF outcome = "spawn_failed"
    THEN [res |-> ErrK("CommandExecutionFailed", "Failed to execute command"), spawned |-> TRUE]
    ELSE [res |-> Ok(<<>>), spawned |-> TRUE]

execute_command_io_error(dir, command, outcome) ==
    IF Len(command) = 0
    THEN [res |-> ErrK("CommandExecutionFailed", "No command provided"), spawned |-> FALSE]
    ELSE IF outcome = "spawn_failed"
    THEN [res |-> ErrK("IoError", "Failed to execute command"), spawned |-> TRUE]
    ELSE IF outcome = "exit_nonzero"
    THEN [res |-> ErrK("IoError", "failed with exit code"), spawned |-> TRUE]
    ELSE [res |-> Ok(<<>>), spawned |-> TRUE]

\* executor.rs 5-64: the result for a command whose process ends as outcome;
\* no process is spawned for an empty command
execute_command(dir, command, outcome) ==
    IF Len(command) = 0
    THEN [res |-> ErrK("CommandExecutionFailed", "No command provided"), spawned |-> FALSE]
    ELSE IF outcome = "spawn_failed"
    THEN [res |-> ErrK("CommandExecutionFailed", "Failed to execute command"), spawned |-> TRUE]
    ELSE IF outcome = "exit_nonzero"
    THEN [res |-> ErrK("CommandExecutionFailed", "failed with exit code"), spawned |-> TRUE]
    ELSE [res |-> Ok(<<>>), spawned |-> TRUE]

\* config_helper.rs 39-55 and 57-73: the result of one --set call
set_result(what, outcome) ==
    IF outcome = "spawn_failed"
    THEN ErrK("ConfigSaveFailed", "Failed to execute c2rust-config")
    ELSE IF outcome = "exit_nonzero"
    THEN ErrK("ConfigSaveFailed", what)
    ELSE Ok(<<>>)

\* the configuration tool: config --make --feature f --set key value
ToolSet(f, key, value) ==
    {t \in config : ~(t[1] = f /\ t[2] = key)} \cup {<<f, key, value>>}

\* the auto-commit step of run, on the store of root: no store, no
\* repository or no change: nothing to do; otherwise commit
auto_commit_if_modified(root) ==
    IF ~exists(root, ".c2rust") THEN [res |-> Ok(<<>>), fs |-> fs, git |-> git]
    ELSE IF ~git.repo THEN [res |-> Ok(<<>>), fs |-> fs, git |-> git]
    ELSE LET m == has_modifications(git)
         IN  IF ~m.ok THEN [res |-> m, fs |-> fs, git |-> git]
             ELSE IF m.val
             THEN LET c == commit_changes(git)
                  IN  [res |-> c.res, fs |-> fs, git |-> c.git]
             ELSE [res |-> Ok(<<>>), fs |-> fs, git |-> git]

RunDirs == PathsOver(Names, MaxDepth - 1)
EnvRoots == {None, Some(<<>>), Some(<<NameB>>), Some(MissingPath)}
Features == {None, Some(<<"f">>)}
CleanCmds == {<<<<"m">>>>, <<<<"e">>, <<"h", "i">>>>}
\* entries of a directory of an invocation's tree
RunEntries == {{}, {".git"}, {".c2rust"}, {"Cargo.toml", ".c2rust"}}

InitRun ==
    /\ platform = "unix"
    /\ cwd \in RunDirs
    /\ \E m \in [0..Len(cwd) -> RunEntries] : fs = TreeFor(cwd, m)
    /\ envRoot \in EnvRoots
    /\ pc = "start"
    /\ root_arg = None
    /\ project_root = None
    /\ clean_dir_relative = None
    /\ stderr = <<>>
    /\ args \in [feature : Features, clean_cmd : CleanCmds]
    /\ calls = <<>>
    /\ run_result = None
    /\ exit_code = None
    /\ config = {}
    /\ StoreIdle
    /\ hist = <<>>
    /\ faults \in {{}, {"statuses"}, {"commit"}}
    /\ IF find_project_root(cwd).ok /\ exists(find_project_root(cwd).val, ".c2rust")
       THEN \E r \in BOOLEAN, w \in BOOLEAN :
               git = [repo |-> r, workdir_changed |-> w, index_changed |-> FALSE,
                      commits |-> <<>>]
       ELSE git = NoRepo

\* plausible bug: a failed command gives its own status as exit code
Returns_command_status(r) ==
    /\ run_result' = Some(r)
    /\ exit_code' = Some(IF r.ok THEN 0
                         ELSE IF r.err.kind = "CommandExecutionFailed" THEN 2
                         ELSE 1)
    /\ pc' = "exited"

\* run returns r and main turns it into the exit code (main.rs 114-125)
Returns(r) ==
    /\ run_result' = Some(r)
    /\ exit_code' = Some(IF r.ok THEN 0 ELSE 1)
    /\ pc' = "exited"

\* main.rs 67
Preflight ==
    /\ pc = "start"
    /\ \E outcome \in Outcomes :
          /\ calls' = Append(calls, Call("probe", None, "--help", <<>>, outcome))
          /\ LET r == check_c2rust_config_exists(outcome)
             IN  IF r.ok
                 THEN pc' = "checked" /\ UNCHANGED <<run_result, exit_code>>
                 ELSE Returns(r)
    /\ UNCHANGED <<storeVars, envVars, calcVars, args, config, gitVars>>

\* main.rs 73-91
ResolveStep ==
    /\ pc = "checked"
    /\ \/ /\ Returns(ErrK("IoError", "current_dir"))
          /\ UNCHANGED calcVars
       \/ LET found == find_project_root(cwd)
          IN  IF ~found.ok
              THEN Returns(ErrK("IoError", "find_project_root")) /\ UNCHANGED calcVars
              ELSE LET c == relative_clean_dir(cwd, found.val)
                   IN  /\ project_root' = Some(found)
                       /\ root_arg' = Some(found.val)
                       /\ clean_dir_relative' = Some(Ok(c.value))
                       /\ stderr' = IF c.warned THEN Append(stderr, WarnNotUnderRoot)
                                    ELSE stderr
                       /\ pc' = "resolved"
                       /\ UNCHANGED <<run_result, exit_code>>
    /\ UNCHANGED <<storeVars, envVars, args, calls, config, gitVars>>

\* main.rs 100
Execute ==
    /\ pc = "resolved"
    /\ \E outcome \in Outcomes :
          LET x == execute_command(cwd, args.clean_cmd, outcome)
          IN  /\ calls' = IF x.spawned
                          THEN Append(calls, Call("exec", None, "-",
                                                  join_space(args.clean_cmd), outcome))
                          ELSE calls
              /\ IF x.res.ok
                 THEN pc' = "executed" /\ UNCHANGED <<run_result, exit_code>>
                 ELSE Returns(x.res)
    /\ UNCHANGED <<storeVars, envVars, calcVars, args, config, gitVars>>

\* main.rs 103-104, config_helper.rs 39-55: --set clean.dir
SaveDir ==
    /\ pc = "executed"
    /\ \E outcome \in Outcomes :
          LET r == set_result("Failed to save clean.dir", outcome)
              dir == clean_dir_relative[1].val
          IN  /\ calls' = Append(calls, Call("set", Some(feature), "clean.dir", dir, outcome))
              /\ IF r.ok
                 THEN /\ config' = ToolSet(feature, "clean.dir", dir)
                      /\ pc' = "dir_saved"
                      /\ UNCHANGED <<run_result, exit_code>>
                 ELSE Returns(r) /\ UNCHANGED config
    /\ UNCHANGED <<storeVars, envVars, calcVars, args, gitVars>>

\* config_helper.rs 57-75: --set clean.cmd
SaveCmd ==
    /\ pc = "dir_saved"
    /\ \E outcome \in Outcomes :
          LET r == set_result("Failed to save clean command", outcome)
              command_str == join_space(args.clean_cmd)
          IN  /\ calls' = Append(calls, Call("set", Some(feature), "clean.cmd",
                                             command_str, outcome))
              /\ IF r.ok
                 THEN /\ config' = ToolSet(feature, "clean.cmd", command_str)
                      /\ pc' = "saved"
                      /\ UNCHANGED <<run_result, exit_code>>
                 ELSE Returns(r) /\ UNCHANGED config
    /\ UNCHANGED <<storeVars, envVars, calcVars, args, gitVars>>

\* main.rs 107-111: the auto-commit step, its error propagated by `?`
AutoCommit ==
    /\ pc = "saved"
    /\ LET o == auto_commit_if_modified(project_root[1].val)
       IN  /\ fs' = o.fs
           /\ git' = o.git
           /\ hist' = Append(hist, [ok |-> o.res.ok, before |-> git,
                                    fs_before |-> fs, after |-> o.git,
                                    fs_after |-> o.fs])
           /\ IF o.res.ok THEN Returns(Ok(<<>>))
              ELSE Returns(ErrK("IoError", "auto-commit"))
    /\ UNCHANGED <<storeVars, platform, cwd, envRoot, calcVars, args, calls, config, faults>>

NextRun == Preflight \/ ResolveStep \/ Execute \/ SaveDir \/ SaveCmd \/ AutoCommit

SpecRun == InitRun /\ [][NextRun]_vars

\* the closest ancestor-or-self of d holding a marker, d itself if none does
ClosestMarkedOrSelf(d) ==
    IF \E e \in Prefixes(d) : Marked(e)
    THEN CHOOSE e \in Prefixes(d) :
            Marked(e) /\ \A x \in Prefixes(d) : Marked(x) => Len(x) <= Len(e)
    ELSE d

RootResolved == project_root # None /\ pc \notin {"start", "checked"}

ProbeFailed == Len(calls) >= 1 /\ calls[1].outcome # "exit_zero"

\* C8: when the probe cannot be spawned or exits non-zero, the invocation
\* fails with ConfigToolNotFound and exit code 1 before anything else is
\* done: no command is spawned, no set call is made, no auto-commit is
\* attempted, nothing is stored.
C8_ToolNotFoundBeforeAnySideEffect ==
    ProbeFailed =>
        /\ pc = "exited"
        /\ run_result = Some(ErrK("ConfigToolNotFound", ""))
        /\ exit_code = Some(1)
        /\ Len(calls) = 1 /\ calls[1].kind = "probe"
        /\ config = {}
        /\ hist = <<>>
        /\ project_root = None

C8_Witness ==
    /\ pc = "exited"
    /\ calls = <<Call("probe", None, "--help", <<>>, "spawn_failed")>>
    /\ run_result = Some(ErrK("ConfigToolNotFound", ""))

AllSucceededBeforeAutoCommit ==
    /\ Len(calls) = 4
    /\ \A k \in 1..4 : calls[k].outcome = "exit_zero"
    /\ Len(hist) = 1

\* C9: when the preflight check, the user's command and both set calls
\* succeeded, run reports success (exit code 0) whether the auto-commit step
\* returned Ok or Err.
C9_AutoCommitNeverFatal ==
    (pc = "exited" /\ AllSucceededBeforeAutoCommit) =>
        /\ run_result = Some(Ok(<<>>))
        /\ exit_code = Some(0)

Kinds(cs) == [k \in 1..Len(cs) |-> cs[k].kind]

SetCallAt(k) == k \in 1..Len(calls) /\ calls[k].kind = "set"
ExecCallAt(k) == k \in 1..Len(calls) /\ calls[k].kind = "exec"

ExecFailed == \E k \in 1..Len(calls) : ExecCallAt(k) /\ calls[k].outcome # "exit_zero"

\* C19: a set call is made only after the user's command exited with
\* status 0; when the command cannot be spawned or exits non-zero, run
\* returns CommandExecutionFailed, no set call is made and the auto-commit
\* step is not run: the configuration held and the revisions are those of
\* before the run.
C19_NoSaveAfterFailedCommand ==
    /\ (\E i \in 1..Len(calls) : SetCallAt(i)) =>
          \E j \in 1..Len(calls) : ExecCallAt(j) /\ calls[j].outcome = "exit_zero"
    /\ ExecFailed =>
          /\ pc = "exited"
          /\ ~run_result[1].ok
          /\ run_result[1].err.kind = "CommandExecutionFailed"
          /\ \A i \in 1..Len(calls) : ~SetCallAt(i)
          /\ config = {}
          /\ hist = <<>>
          /\ git.commits = <<>> /\ ~git.index_changed

\* the command exits non-zero over a changed store: nothing saved, nothing
\* committed
C19_Witness ==
    /\ pc = "exited"
    /\ Len(calls) = 2
    /\ calls[2].kind = "exec" /\ calls[2].outcome = "exit_nonzero"
    /\ run_result = Some(ErrK("CommandExecutionFailed", "failed with exit code"))
    /\ git.repo /\ git.workdir_changed
    /\ config = {}
    /\ hist = <<>>

ErrorKinds == {"ConfigToolNotFound", "CommandExecutionFailed", "ConfigSaveFailed", "IoError"}

\* C20: the exit code is 0 exactly when run returned Ok and 1 for every
\* error run returns (ConfigToolNotFound, CommandExecutionFailed, a
\* non-zero exit of the user's command included, ConfigSaveFailed,
\* IoError); there is no exit code while run has not returned and no other
\* exit code afterwards.
C20_ExitCodeZeroOrOne ==
    /\ pc # "exited" => (exit_code = None /\ run_result = None)
    /\ pc = "exited" =>
          /\ run_result # None
          /\ exit_code \in {Some(0), Some(1)}
          /\ exit_code = Some(0) <=> run_result[1].ok
          /\ ~run_result[1].ok =>
                (run_result[1].err.kind \in ErrorKinds /\ exit_code = Some(1))

\* the user's command exits non-zero: exit code 1
C20_Witness ==
    /\ pc = "exited"
    /\ ExecFailed
    /\ calls[Len(calls)].outcome = "exit_nonzero"
    /\ run_result[1].err.kind = "CommandExecutionFailed"
    /\ exit_code = Some(1)

\* C21: every set call of a run carries a feature scope: the name given by
\* the --feature flag when there is one, "default" otherwise; the set calls
\* of one run use the same name, and what is stored is stored under it.
C21_FeatureScopeOnEverySet ==
    /\ \A k \in 1..Len(calls) :
          SetCallAt(k) =>
              /\ calls[k].feature # None
              /\ args.feature # None => calls[k].feature = args.feature
              /\ args.feature = None =>
                    calls[k].feature = Some(<<"d", "e", "f", "a", "u", "l", "t">>)
    /\ \A i \in 1..Len(calls) : \A j \in 1..Len(calls) :
          (SetCallAt(i) /\ SetCallAt(j)) => calls[i].feature = calls[j].feature
    /\ \A t \in config : \E k \in 1..Len(calls) :
          SetCallAt(k) /\ Some(t[1]) = calls[k].feature

\* no flag: clean.dir and clean.cmd are both set under "default"
C21_Witness ==
    /\ args.feature = None
    /\ Len(calls) = 4
    /\ calls[3].kind = "set" /\ calls[3].key = "clean.dir"
    /\ calls[4].kind = "set" /\ calls[4].key = "clean.cmd"
    /\ calls[3].feature = Some(DefaultFeature)
    /\ calls[4].feature = Some(DefaultFeature)
    /\ calls[4].outcome = "exit_zero"

\* C25: in run the resolved root is the current directory or one of its
\* ancestors, whatever the tree holds: stripping the root from the current
\* directory succeeds, the "not under project root" warning is never
\* written, and the relative directory, as calculated and as saved, is "."
\* or the names leading from the root down to the current directory.
C25_RootIsAncestorOrSelf ==
    /\ \A i \in 1..Len(stderr) : stderr[i] # WarnNotUnderRoot
    /\ RootResolved =>
          /\ project_root[1].ok
          /\ project_root[1].val \in Prefixes(cwd)
          /\ clean_dir_relative[1].val =
                IF project_root[1].val = cwd THEN Dot
                ELSE JoinSlash(SubSeq(cwd, Len(project_root[1].val) + 1, Len(cwd)))
          /\ \A k \in 1..Len(calls) :
                (SetCallAt(k) /\ calls[k].key = "clean.dir") =>
                    calls[k].value = clean_dir_relative[1].val
          /\ \A t \in config : t[2] = "clean.dir" => t[3] = clean_dir_relative[1].val

\* the root is the parent of the current directory, whose name is saved
C25_Witness ==
    /\ RootResolved
    /\ Len(cwd) >= 1
    /\ project_root[1] = Ok(SubSeq(cwd, 1, Len(cwd) - 1))
    /\ envRoot # None /\ envRoot[1] \notin Prefixes(cwd)
    /\ stderr = <<>>
    /\ \E t \in config : t[2] = "clean.dir" /\ t[3] = cwd[Len(cwd)]

(***************************************************************************)
(* config_helper.rs: the text of a --list answer and its parsing            *)
(***************************************************************************)
\* char::is_whitespace for the characters of the model
is_whitespace(c) == c \in {" ", "\n"}

\* str::trim_start, str::trim_end, str::trim
RECURSIVE trim_start(_)
trim_start(s) ==
    IF Len(s) > 0 /\ is_whitespace(s[1]) THEN trim_start(Tail(s)) ELSE s

RECURSIVE trim_end(_)
trim_end(s) ==
    IF Len(s) > 0 /\ is_whitespace(s[Len(s)])
    THEN trim_end(SubSeq(s, 1, Len(s) - 1))
    ELSE s

trim(s) == trim_end(trim_start(s))

starts_with(s, c) == Len(s) > 0 /\ s[1] = c
ends_with(s, c) == Len(s) > 0 /\ s[Len(s)] = c

\* str::strip_prefix(char) and str::strip_suffix(char) followed by
\* unwrap_or(default)
strip_prefix_or(s, c, default) == IF starts_with(s, c) THEN Tail(s) ELSE default
strip_suffix_or(s, c, default) ==
    IF ends_with(s, c) THEN SubSeq(s, 1, Len(s) - 1) ELSE default

\* position of the first c in s, 0 if there is none
RECURSIVE find(_, _)
find(s, c) ==
    IF Len(s) = 0 THEN 0
    ELSE IF s[1] = c THEN 1
    ELSE LET r == find(Tail(s), c) IN IF r = 0 THEN 0 ELSE r + 1

\* str::split(char): one part more than there are separators
RECURSIVE split(_, _)
split(s, c) ==
    LET i == find(s, c)
    IN  IF i = 0 THEN <<s>>
        ELSE <<SubSeq(s, 1, i - 1)>> \o split(SubSeq(s, i + 1, Len(s)), c)

\* plausible bug: the segment is split on its last '='
split_once_last(s, c) ==
    LET r == find([k \in 1..Len(s) |-> s[Len(s) + 1 - k]], c)
        i == Len(s) + 1 - r
    IN  IF r = 0 THEN None
        ELSE Some(<<SubSeq(s, 1, i - 1), SubSeq(s, i + 1, Len(s))>>)

\* str::split_once(char)
split_once(s, c) ==
    LET i == find(s, c)
    IN  IF i = 0 THEN None
        ELSE Some(<<SubSeq(s, 1, i - 1), SubSeq(s, i + 1, Len(s))>>)

\* plausible bug: any two quote characters at the ends count as a pair
remove_quotes_any_pair(s) ==
    IF /\ Len(s) >= 2
       /\ (starts_with(s, "\"") \/ starts_with(s, "'"))
       /\ (ends_with(s, "\"") \/ ends_with(s, "'"))
    THEN SubSeq(s, 2, Len(s) - 1)
    ELSE s

\* config_helper.rs 149-156
remove_quotes(s) ==
    IF \/ (starts_with(s, "\"") /\ ends_with(s, "\"") /\ Len(s) >= 2)
       \/ (starts_with(s, "'") /\ ends_with(s, "'") /\ Len(s) >= 2)
    THEN SubSeq(s, 2, Len(s) - 1)
    ELSE s

\* CleanConfig::default()
CleanConfigDefault == [dir |-> None, command |-> None]

KeyCmd == <<"c", "m", "d">>
KeyDir == <<"d", "i", "r">>

\* config_helper.rs 128-142: the loop over the parts, from part i on
RECURSIVE parse_parts(_, _, _)
parse_parts(parts, i, cfg) ==
    IF i > Len(parts) THEN cfg
    ELSE LET part == trim(parts[i])
             kv == split_once(part, "=")
         IN  IF kv = None THEN parse_parts(parts, i + 1, cfg)
             ELSE LET key == trim(kv[1][1])
                      value == remove_quotes(trim(kv[1][2]))
                  IN  IF key = KeyCmd
                      THEN parse_parts(parts, i + 1, [cfg EXCEPT !.command = Some(value)])
                      ELSE IF key = KeyDir
                      THEN parse_parts(parts, i + 1, [cfg EXCEPT !.dir = Some(value)])
                      ELSE parse_parts(parts, i + 1, cfg)

\* config_helper.rs 118-145
parse_clean_config(s) ==
    LET content == trim(strip_suffix_or(strip_prefix_or(trim(s), "{", trim(s)),
                                        "}", trim(s)))
    IN  Ok(parse_parts(split(content, ","), 1, CleanConfigDefault))

(***************************************************************************)
(* The configuration tool as save_config and read_config use it             *)
(***************************************************************************)
\* what the tool holds for a feature and a key: None if nothing was set
ToolGet(f, key) ==
    IF \E t \in config : t[1] = f /\ t[2] = key
    THEN Some((CHOOSE t \in config : t[1] = f /\ t[2] = key)[3])
    ELSE None

\* the quote styles of a listed value: double, single, none
Styles == {<<"\"">>, <<"'">>, <<>>}

\* a value the tool can list without quotes
Bareable(v) == Len(v) > 0 /\ \A i \in 1..Len(v) : v[i] \in {"a", "="}

\* key = "value"
ListedField(key, v, q) == key \o <<" ", "=", " ">> \o q \o v \o q

\* { cmd = "make clean", dir = "build" } and a line end
ListedRecord(fields) ==
    IF Len(fields) = 0 THEN <<"{", "}", "\n">>
    ELSE IF Len(fields) = 1 THEN <<"{", " ">> \o fields[1] \o <<" ", "}", "\n">>
    ELSE <<"{", " ">> \o fields[1] \o <<",", " ">> \o fields[2] \o <<" ", "}", "\n">>

\* the answers the tool can give to --list clean for feature f when it
\* exits with status 0
ToolListings(f) ==
    LET c == ToolGet(f, "clean.cmd")
        d == ToolGet(f, "clean.dir")
        ok(v, q) == q # <<>> \/ Bareable(v)
    IN  IF c = None /\ d = None THEN {ListedRecord(<<>>), <<"\n">>}
        ELSE IF d = None
        THEN {ListedRecord(<<ListedField(KeyCmd, c[1], q)>>) : q \in {s \in Styles : ok(c[1], s)}}
        ELSE IF c = None
        THEN {ListedRecord(<<ListedField(KeyDir, d[1], q)>>) : q \in {s \in Styles : ok(d[1], s)}}
        ELSE LET qs == {s \in Styles : ok(c[1], s) /\ ok(d[1], s)}
             IN  {ListedRecord(<<ListedField(KeyCmd, c[1], q), ListedField(KeyDir, d[1], q)>>) :
                      q \in qs}
                 \cup
                 {ListedRecord(<<ListedField(KeyDir, d[1], q), ListedField(KeyCmd, c[1], q)>>) :
                      q \in qs}

\* config_helper.rs 30-75: the result, the subprocesses spawned and what
\* the tool holds afterwards, the two --set calls ending as o1 and o2
save_config(dir, command, feature_, o1, o2) ==
    LET r1 == set_result("Failed to save clean.dir", o1)
        r2 == set_result("Failed to save clean command", o2)
        c1 == Call("set", feature_, "clean.dir", dir, o1)
        c2 == Call("set", feature_, "clean.cmd", command, o2)
        s1 == ToolSet(feature_, "clean.dir", dir)
        s2 == {t \in s1 : ~(t[1] = feature_ /\ t[2] = "clean.cmd")}
                  \cup {<<feature_, "clean.cmd", command>>}
    IN  IF ~r1.ok THEN [res |-> r1, calls |-> <<c1>>, config |-> config]
        ELSE IF ~r2.ok THEN [res |-> r2, calls |-> <<c1, c2>>, config |-> s1]
        ELSE [res |-> Ok(<<>>), calls |-> <<c1, c2>>, config |-> s2]

\* plausible bug: a non-zero exit of the query is an error
read_config_strict(feature_, outcome, stdout) ==
    IF outcome = "exit_zero"
    THEN IF Len(trim(stdout)) # 0 THEN parse_clean_config(trim(stdout))
         ELSE Ok(CleanConfigDefault)
    ELSE ErrK("ConfigReadFailed", "Failed to execute c2rust-config")

\* config_helper.rs 81-114: the query ends as outcome with stdout on its
\* standard output
read_config(feature_, outcome, stdout) ==
    IF outcome = "exit_zero"
    THEN IF Len(trim(stdout)) # 0 THEN parse_clean_config(trim(stdout))
         ELSE Ok(CleanConfigDefault)
    ELSE IF outcome = "exit_nonzero" THEN Ok(CleanConfigDefault)
    ELSE ErrK("ConfigReadFailed", "Failed to execute c2rust-config")

(***************************************************************************)
(* config.rs: Config::save and Config::load                                 *)
(***************************************************************************)
\* serde_json: the characters of a string literal, quotes and backslashes
\* escaped
RECURSIVE json_escape(_)
json_escape(s) ==
    IF Len(s) = 0 THEN <<>>
    ELSE (IF s[1] \in {"\"", "\\"} THEN <<"\\", s[1]>> ELSE <<s[1]>>)
             \o json_escape(Tail(s))

\* the characters a literal's body stands for; None if it is malformed
RECURSIVE json_unescape(_)
json_unescape(s) ==
    IF Len(s) = 0 THEN Some(<<>>)
    ELSE IF s[1] = "\"" THEN None
    ELSE IF s[1] = "\\"
    THEN IF Len(s) < 2 \/ s[2] \notin {"\"", "\\"} THEN None
         ELSE LET r == json_unescape(SubSeq(s, 3, Len(s)))
              IN  IF r = None THEN None ELSE Some(<<s[2]>> \o r[1])
    ELSE LET r == json_unescape(Tail(s))
         IN  IF r = None THEN None ELSE Some(<<s[1]>> \o r[1])

JsonHead == <<"{", "\n", " ", " ", "\"build_dir\"", ":", " ", "\"">>
JsonTail == <<"\"", "\n", "}">>

\* serde_json::to_string_pretty(&Config { build_dir })
to_string_pretty(build_dir) == JsonHead \o json_escape(build_dir) \o JsonTail

\* serde_json::from_str::<Config>
from_str(json) ==
    IF /\ Len(json) >= Len(JsonHead) + Len(JsonTail)
       /\ SubSeq(json, 1, Len(JsonHead)) = JsonHead
       /\ SubSeq(json, Len(json) - Len(JsonTail) + 1, Len(json)) = JsonTail
    THEN LET body == json_unescape(SubSeq(json, Len(JsonHead) + 1,
                                          Len(json) - Len(JsonTail)))
         IN  IF body = None THEN Err("IoError") ELSE Ok([build_dir |-> body[1]])
    ELSE Err("IoError")

\* config.rs 98-120
load(c2rust_root) ==
    IF config_file = None THEN Err("IoError") ELSE from_str(config_file[1])

(***************************************************************************)
(* Saving a record and reading it back, with either strategy                *)
(***************************************************************************)
\* longest value of the record
MaxLen == 3

Alphabet == {"a", "=", ",", " ", "\"", "'"}

RECURSIVE StringsOver(_, _)
StringsOver(A, n) ==
    IF n = 0 THEN {<<>>}
    ELSE LET shorter == StringsOver(A, n - 1)
         IN  shorter \cup {Append(s, c) : s \in {t \in shorter : Len(t) = n - 1}, c \in A}

Values == StringsOver(Alphabet, MaxLen)

PlainDir == <<"a">>
PlainCmd == <<"a", " ", "a">>
OtherFeature == Some(<<"g">>)

InitStore ==
    /\ platform = "unix"
    /\ cwd = <<>>
    /\ fs = [d \in Dirs |-> {}]
    /\ envRoot = None
    /\ pc = "start"
    /\ root_arg = None
    /\ project_root = None
    /\ clean_dir_relative = None
    /\ stderr = <<>>
    /\ args = None
    /\ calls = <<>>
    /\ run_result = None
    /\ exit_code = None
    /\ config = {<<OtherFeature, "clean.dir", PlainDir>>}
    /\ GitIdle
    /\ \E v \in Values, f \in Features :
          \/ request = [dir |-> v, command |-> PlainCmd, feature |-> f]
          \/ request = [dir |-> PlainDir, command |-> v, feature |-> f]
    /\ config_file = None
    /\ listing = None
    /\ loaded = None

\* save_config(dir, command, feature)
StoreSave ==
    /\ pc = "start"
    /\ \E o1 \in Outcomes, o2 \in Outcomes :
          LET r == save_config(request.dir, request.command, request.feature, o1, o2)
          IN  /\ calls' = calls \o r.calls
              /\ config' = r.config
              /\ run_result' = Some(r.res)
    /\ pc' = "saved"
    /\ UNCHANGED <<envVars, calcVars, args, exit_code, gitVars, request,
                   config_file, listing, loaded>>

\* read_config(feature)
StoreRead ==
    /\ pc \in {"start", "saved"}
    /\ \E outcome \in Outcomes :
       \E stdout \in IF outcome = "exit_zero" THEN ToolListings(request.feature)
                     ELSE {<<>>} :
          /\ calls' = Append(calls, Call("list", request.feature, "clean", <<>>, outcome))
          /\ listing' = Some(stdout)
          /\ loaded' = Some(read_config(request.feature, outcome, stdout))
    /\ pc' = "read"
    /\ UNCHANGED <<envVars, calcVars, args, run_result, exit_code, config, gitVars,
                   request, config_file>>

\* Config::save(root, build_dir), config.rs 73-95
FileSave ==
    /\ pc = "start"
    /\ \/ /\ run_result' = Some(Err("IoError"))
          /\ UNCHANGED <<fs, config_file>>
       \/ /\ fs' = [fs EXCEPT ![cwd] = @ \cup {".c2rust"}]
          /\ config_file' = Some(to_string_pretty(request.dir))
          /\ run_result' = Some(Ok(<<>>))
    /\ pc' = "file_saved"
    /\ UNCHANGED <<platform, cwd, envRoot, calcVars, args, calls, exit_code, config,
                   gitVars, request, listing, loaded>>

\* Config::load(root)
FileLoad ==
    /\ pc \in {"start", "file_saved"}
    /\ loaded' = Some(load(cwd))
    /\ pc' = "file_loaded"
    /\ UNCHANGED <<envVars, calcVars, runVars, gitVars, request, config_file, listing>>

NextStore == StoreSave \/ StoreRead \/ FileSave \/ FileLoad

SpecStore == InitStore /\ [][NextStore]_vars

SavedOk == run_result = Some(Ok(<<>>))

\* the record was set and the query answered with exit status 0
ReadBack ==
    /\ pc = "read"
    /\ SavedOk
    /\ calls[Len(calls)].kind = "list"
    /\ calls[Len(calls)].outcome = "exit_zero"

HasChar(s, c) == \E i \in 1..Len(s) : s[i] = c

\* C13: saving a record and loading it for the same root and feature gives
\* back exactly what was saved: build_dir with Config::save and
\* Config::load, dir and command with save_config and read_config, a value
\* containing '=' and values listed in either quote style included.
C13_RoundTrip ==
    /\ ReadBack =>
          loaded = Some(Ok([dir |-> Some(request.dir),
                            command |-> Some(request.command)]))
    /\ (pc = "file_loaded" /\ SavedOk) =>
          loaded = Some(Ok([build_dir |-> request.dir]))

\* the record the tool listed holds no comma inside a value
NoCommaInValues == ~HasChar(request.dir, ",") /\ ~HasChar(request.command, ",")

\* C14: a segment is split on its first '=' only: a value containing '='
\* (in a record whose values hold no comma) is parsed verbatim, as cmd and
\* as dir.
C14_FirstEqualsOnly ==
    (ReadBack /\ NoCommaInValues) =>
        /\ loaded[1].ok
        /\ HasChar(request.command, "=") =>
              loaded[1].val.command = Some(request.command)
        /\ HasChar(request.dir, "=") =>
              loaded[1].val.dir = Some(request.dir)

\* cmd = "a=a" is parsed to a=a
C14_Witness ==
    /\ ReadBack
    /\ request.command = <<"a", "=", "a">>
    /\ HasChar(listing[1], "\"")
    /\ loaded[1].ok
    /\ loaded[1].val.command = Some(<<"a", "=", "a">>)
    /\ loaded[1].val.dir = Some(PlainDir)

\* the listed record gives its values in quotes
ListedQuoted ==
    listing # None /\ (HasChar(listing[1], "\"") \/ HasChar(listing[1], "'"))

\* C15: the record is split on top-level commas only: a comma inside a
\* quoted value does not split the value, so a value holding a comma is
\* parsed whole and the other value with it.
C15_TopLevelCommasOnly ==
    (ReadBack /\ ListedQuoted /\ ~NoCommaInValues) =>
        /\ loaded[1].ok
        /\ loaded[1].val.command = Some(request.command)
        /\ loaded[1].val.dir = Some(request.dir)

SetNote(key) ==
    IF key = "clean.dir" THEN "Failed to save clean.dir"
    ELSE "Failed to save clean command"

\* C16: save_config sets clean.dir first and clean.cmd second; a set call
\* that cannot be spawned or exits non-zero ends it with ConfigSaveFailed
\* naming that field and no further set call; it returns Ok only when both
\* set calls exited with status 0.
C16_SaveShortCircuitsNamingField ==
    pc = "saved" =>
        /\ Len(calls) \in {1, 2}
        /\ calls[1].key = "clean.dir"
        /\ Len(calls) = 2 => calls[2].key = "clean.cmd"
        /\ \A k \in 1..Len(calls) :
              calls[k].outcome # "exit_zero" =>
                  /\ k = Len(calls)
                  /\ ~run_result[1].ok
                  /\ run_result[1].err.kind = "ConfigSaveFailed"
                  /\ run_result[1].err.detail = SetNote(calls[k].key)
        /\ run_result[1].ok <=>
              (Len(calls) = 2 /\ \A k \in 1..2 : calls[k].outcome = "exit_zero")

LastCall == calls[Len(calls)]

\* C17: read_config takes a non-zero exit of the query for an absent value
\* and returns Ok with neither dir nor command; it returns ConfigReadFailed
\* exactly when the query could not be spawned.
C17_NonZeroExitIsAbsent ==
    pc = "read" =>
        /\ LastCall.outcome = "exit_nonzero" =>
              loaded = Some(Ok([dir |-> None, command |-> None]))
        /\ ~loaded[1].ok <=> LastCall.outcome = "spawn_failed"
        /\ ~loaded[1].ok => loaded[1].err.kind = "ConfigReadFailed"

\* both values were set, the query exits non-zero: Ok, nothing read
C17_Witness ==
    /\ pc = "read"
    /\ SavedOk
    /\ ToolGet(request.feature, "clean.dir") # None
    /\ ToolGet(request.feature, "clean.cmd") # None
    /\ LastCall.kind = "list" /\ LastCall.outcome = "exit_nonzero"
    /\ loaded = Some(Ok(CleanConfigDefault))

(***************************************************************************)
(* remove_quotes and parse_clean_config applied to texts of every shape     *)
(***************************************************************************)
Leads == {<<>>, <<"{">>, <<"{", " ">>, <<" ", "{", " ">>}
Tails == {<<>>, <<"}">>, <<" ", "}">>, <<" ", "}", "\n">>}

\* nothing, one field, both fields
RecordBodies ==
    {<<>>}
    \cup {ListedField(k, v, q) :
              k \in {KeyCmd, KeyDir}, v \in {PlainDir, <<"a", "=">>}, q \in Styles}
    \cup {ListedField(KeyCmd, PlainCmd, q) \o <<",", " ">> \o ListedField(KeyDir, PlainDir, q) :
              q \in Styles}

\* records with both braces, one of them or none
BraceTexts == {l \o b \o t : l \in Leads, b \in RecordBodies, t \in Tails}

Texts == Values \cup BraceTexts

InitParse ==
    /\ platform = "unix"
    /\ cwd = <<>>
    /\ fs = [d \in Dirs |-> {}]
    /\ envRoot = None
    /\ pc = "start"
    /\ root_arg = None
    /\ project_root = None
    /\ clean_dir_relative = None
    /\ stderr = <<>>
    /\ RunIdle
    /\ GitIdle
    /\ \E t \in Texts : request = [text |-> t]
    /\ config_file = None
    /\ listing = None
    /\ loaded = None

\* remove_quotes(text)
Unquote ==
    /\ pc = "start"
    /\ loaded' = Some(remove_quotes(request.text))
    /\ pc' = "unquoted"
    /\ UNCHANGED <<envVars, calcVars, runVars, gitVars, request, config_file, listing>>

\* parse_clean_config(text)
ParseText ==
    /\ pc = "start"
    /\ loaded' = Some(parse_clean_config(request.text))
    /\ pc' = "parsed"
    /\ UNCHANGED <<envVars, calcVars, runVars, gitVars, request, config_file, listing>>

NextParse == Unquote \/ ParseText

SpecParse == InitParse /\ [][NextParse]_vars

IsQuote(c) == c \in {"\"", "'"}

\* first and last character are the same quote character
QuotedPair(s) == Len(s) >= 2 /\ IsQuote(s[1]) /\ s[Len(s)] = s[1]

\* C22: remove_quotes strips exactly one pair of surrounding quotes and
\* only a matching pair: a value of two or more characters whose first and
\* last character are the same quote character loses those two characters
\* and nothing else; every other value (unquoted, empty, one quote
\* character, different quotes at the ends) is returned unchanged.
C22_OneMatchingPair ==
    pc = "unquoted" =>
        LET s == request.text
        IN  /\ QuotedPair(s) =>
                  /\ Len(loaded[1]) = Len(s) - 2
                  /\ \A i \in 1..Len(loaded[1]) : loaded[1][i] = s[i + 1]
            /\ ~QuotedPair(s) => loaded[1] = s

\* "'" in double quotes gives the single quote; "a' is left as it is
C22_Witness ==
    /\ pc = "unquoted"
    /\ \/ request.text = <<"\"", "'", "\"">> /\ loaded = Some(<<"'">>)
       \/ request.text = <<"\"", "a", "'">> /\ loaded = Some(<<"\"", "a", "'">>)

\* the result of splitting t into segments and reading them
ParsedFrom(t) == parse_parts(split(trim(t), ","), 1, CleanConfigDefault)

\* C23: enclosing braces are stripped only as a pair: with a leading '{'
\* and a trailing '}' both are removed; with only one of them neither is
\* removed from the text that is split into segments.
C23_BracesOnlyAsPair ==
    pc = "parsed" =>
        LET t == trim(request.text)
            lead == starts_with(t, "{")
            tail == ends_with(t, "}")
        IN  /\ (lead /\ tail /\ Len(t) >= 2) =>
                  loaded = Some(Ok(ParsedFrom(SubSeq(t, 2, Len(t) - 1))))
            /\ (lead # tail) => loaded = Some(Ok(ParsedFrom(t)))

====
